---- MODULE Spec2Model ----
(***************************************************************************)
(* Model of the ledger of src/main.go: accounts, transactions, the handler *)
(* selection (selectTransactionHandler) and the three settlement           *)
(* strategies (CreditTransactionHandler, CashTransactionHandler,           *)
(* DebitTransactionHandler) reached through makePayment.                   *)
(*                                                                         *)
(* Widths are scaled: the uint32 of the source is an unsigned integer with *)
(* maximum MaxUint32 and the float64 of the source is a binary float with  *)
(* MantissaBits bits of mantissa, rounded to nearest-even as IEEE 754      *)
(* does.  MantissaBits is congruent to 53 modulo 4, so that the literals   *)
(* 1.10 and 0.90 (period-4 binary expansions) round in the same direction  *)
(* as they do in float64.                                                  *)
(***************************************************************************)
EXTENDS Integers, FiniteSets, Sequences, TLC

VARIABLES arch, balance, tx, last, prev, selected, paid, conc

vars == <<arch, balance, tx, last, prev, selected, paid, conc>>

----------------------------------------------------------------------------
(* Bounds *)

\* largest value of the (scaled) uint32
MaxUint32 == 255

----------------------------------------------------------------------------
(* Integer and floating-point arithmetic *)

Uint32 == 0..MaxUint32

Modulus == MaxUint32 + 1

\* fraction bits of a (scaled) float64 in [1,2)
FracBits == 16

MantissaBits == FracBits + 1

RECURSIVE Pow2(_)
Pow2(k) == IF k = 0 THEN 1 ELSE 2 * Pow2(k - 1)

RECURSIVE BitLen(_)
BitLen(n) == IF n = 0 THEN 0 ELSE 1 + BitLen(n \div 2)

\* n / d rounded to the nearest integer, ties to even
RoundDiv(n, d) ==
    LET q == n \div d
        r == n % d
    IN  IF 2 * r > d \/ (2 * r = d /\ q % 2 = 1) THEN q + 1 ELSE q

\* the integer n (a significand at some fixed scale) rounded to MantissaBits
\* significant bits, ties to even
RoundToMantissa(n) ==
    LET L == BitLen(n)
    IN  IF L <= MantissaBits THEN n
        ELSE LET q == Pow2(L - MantissaBits) IN RoundDiv(n, q) * q

\* the literal 1.10 as a float: a multiple of 2^-FracBits
Float110 == [m |-> RoundDiv(11 * Pow2(FracBits), 10), f |-> FracBits]

\* the literal 0.90 as a float (in [1/2,1)): a multiple of 2^-(FracBits+1)
Float090 == [m |-> RoundDiv(9 * Pow2(FracBits + 1), 10), f |-> FracBits + 1]

\* float64(amount) * c, then truncated toward zero: the integer part of the
\* rounded product (float64(amount) is exact: MaxUint32 < 2^MantissaBits)
Float64MulTrunc(amount, c) == RoundToMantissa(amount * c.m) \div Pow2(c.f)

\* uint32(x) of a non-negative float with integer part v.  Out of range the
\* result is implementation-dependent: the low bits on builds that convert
\* through a wider integer, the maximum on builds that saturate.
Uint32OfFloat(v, a) ==
    IF v <= MaxUint32 THEN v
    ELSE IF a = "wrap" THEN v % Modulus ELSE MaxUint32

\* uint32 subtraction and addition
SubUint32(x, y) == (x + Modulus - y) % Modulus

AddUint32(x, y) == (x + y) % Modulus

----------------------------------------------------------------------------
(* Data model *)

\* Account values; Account 3 is a second Account value with the id of
\* Account 1 (ids are compared, not pointers)
Acct == {1, 2, 3}

id == <<1, 2, 1>>

CREDIT == "C"
DEBIT == "D"
CASH == "S"

\* a PaymentMethod that is none of the three constants
UNKNOWN == "X"

OPEN == "O"
EXPIRED == "E"
CLOSED == "C"

PaymentMethod == {CREDIT, DEBIT, CASH, UNKNOWN}

TransactionState == {OPEN, EXPIRED, CLOSED}

\* the nil interface value and the three implementations
Nil == "nil"

Credit == "CreditTransactionHandler"
Cash == "CashTransactionHandler"
Debit == "DebitTransactionHandler"

TransactionHandler == {Credit, Cash, Debit}

\* the Transaction values of the model
Tx == {1, 2}

\* errors
NoErr == "nil"
ErrNoHandler == "Could find a valid handler"
ErrSelf == "One account can't make a transaction to itself"
ErrClosed == "Can't pay an already closed transaction"
ErrExpired == "Transaction expired"
ErrBalance == "Sender doesn't have enough balance to make transaction"

\* the runtime panic of a method call on a nil interface
Panic == "panic: nil pointer dereference"

----------------------------------------------------------------------------
(* Settlement strategies *)

\* the outcome of pay: the error returned and the balances and transaction
\* state it leaves
Fail(e, t) == [err |-> e, balance |-> balance, state |-> tx[t].state]

\* uint32(float64(t.amount) * 1.10)
CreditAmount(t) == Uint32OfFloat(Float64MulTrunc(tx[t].amount, Float110), arch)

\* CashAmount with the product rounded to the nearest integer, not truncated
CashAmountRounded(t) ==
    LET x == RoundToMantissa(tx[t].amount * Float090.m)
    IN  Uint32OfFloat((2 * x + Pow2(Float090.f)) \div Pow2(Float090.f + 1),
                      arch)

\* uint32(float64(t.amount) * 0.90)
CashAmount(t) == Uint32OfFloat(Float64MulTrunc(tx[t].amount, Float090), arch)

\* t.amount
DebitAmount(t) == tx[t].amount

\* Settle without the assignment of the CLOSED state
SettleStaysOpen(t, d, c) ==
    LET s == tx[t].sender
        r == tx[t].recipient
        b1 == [balance EXCEPT ![s] = SubUint32(@, d)]
        b2 == [b1 EXCEPT ![r] = AddUint32(@, c)]
    IN  [err |-> NoErr, balance |-> b2, state |-> tx[t].state]

\* the three statements that follow the validations: the sender's balance
\* is decreased by d, then the recipient's balance is increased by c, then
\* the state becomes CLOSED
Settle(t, d, c) ==
    LET s == tx[t].sender
        r == tx[t].recipient
        b1 == [balance EXCEPT ![s] = SubUint32(@, d)]
        b2 == [b1 EXCEPT ![r] = AddUint32(@, c)]
    IN  [err |-> NoErr, balance |-> b2, state |-> CLOSED]

\* CreditPay without the check of the CLOSED state
CreditPayNoClosedCheck(t) ==
    IF id[tx[t].sender] = id[tx[t].recipient] THEN Fail(ErrSelf, t)
    ELSE IF tx[t].state = EXPIRED THEN Fail(ErrExpired, t)
    ELSE IF balance[tx[t].sender] < CreditAmount(t) THEN Fail(ErrBalance, t)
    ELSE Settle(t, CreditAmount(t), CreditAmount(t))

CreditPay(t) ==
    IF id[tx[t].sender] = id[tx[t].recipient] THEN Fail(ErrSelf, t)
    ELSE IF tx[t].state = CLOSED THEN Fail(ErrClosed, t)
    ELSE IF tx[t].state = EXPIRED THEN Fail(ErrExpired, t)
    ELSE IF balance[tx[t].sender] < CreditAmount(t) THEN Fail(ErrBalance, t)
    ELSE Settle(t, CreditAmount(t), CreditAmount(t))

\* CashPay without the check of the EXPIRED state
CashPayNoExpiredCheck(t) ==
    IF id[tx[t].sender] = id[tx[t].recipient] THEN Fail(ErrSelf, t)
    ELSE IF tx[t].state = CLOSED THEN Fail(ErrClosed, t)
    ELSE IF balance[tx[t].sender] < CashAmount(t) THEN Fail(ErrBalance, t)
    ELSE Settle(t, CashAmount(t), CashAmount(t))

\* CashPay refusing a sender whose balance equals the amount
CashPayStrictCheck(t) ==
    IF id[tx[t].sender] = id[tx[t].recipient] THEN Fail(ErrSelf, t)
    ELSE IF tx[t].state = CLOSED THEN Fail(ErrClosed, t)
    ELSE IF tx[t].state = EXPIRED THEN Fail(ErrExpired, t)
    ELSE IF balance[tx[t].sender] <= CashAmount(t) THEN Fail(ErrBalance, t)
    ELSE Settle(t, CashAmount(t), CashAmount(t))

\* CashPay comparing the Account values instead of their ids
CashPaySameAccount(t) ==
    IF tx[t].sender = tx[t].recipient THEN Fail(ErrSelf, t)
    ELSE IF tx[t].state = CLOSED THEN Fail(ErrClosed, t)
    ELSE IF tx[t].state = EXPIRED THEN Fail(ErrExpired, t)
    ELSE IF balance[tx[t].sender] < CashAmount(t) THEN Fail(ErrBalance, t)
    ELSE Settle(t, CashAmount(t), CashAmount(t))

CashPay(t) ==
    IF id[tx[t].sender] = id[tx[t].recipient] THEN Fail(ErrSelf, t)
    ELSE IF tx[t].state = CLOSED THEN Fail(ErrClosed, t)
    ELSE IF tx[t].state = EXPIRED THEN Fail(ErrExpired, t)
    ELSE IF balance[tx[t].sender] < CashAmount(t) THEN Fail(ErrBalance, t)
    ELSE Settle(t, CashAmount(t), CashAmount(t))

\* DebitPay checking the sender's balance before the EXPIRED state
DebitPayBalanceFirst(t) ==
    IF id[tx[t].sender] = id[tx[t].recipient] THEN Fail(ErrSelf, t)
    ELSE IF tx[t].state = CLOSED THEN Fail(ErrClosed, t)
    ELSE IF balance[tx[t].sender] < DebitAmount(t) THEN Fail(ErrBalance, t)
    ELSE IF tx[t].state = EXPIRED THEN Fail(ErrExpired, t)
    ELSE Settle(t, DebitAmount(t), DebitAmount(t))

\* DebitPay without the check of the sender's balance
DebitPayNoBalanceCheck(t) ==
    IF id[tx[t].sender] = id[tx[t].recipient] THEN Fail(ErrSelf, t)
    ELSE IF tx[t].state = CLOSED THEN Fail(ErrClosed, t)
    ELSE IF tx[t].state = EXPIRED THEN Fail(ErrExpired, t)
    ELSE Settle(t, DebitAmount(t), DebitAmount(t))

DebitPay(t) ==
    IF id[tx[t].sender] = id[tx[t].recipient] THEN Fail(ErrSelf, t)
    ELSE IF tx[t].state = CLOSED THEN Fail(ErrClosed, t)
    ELSE IF tx[t].state = EXPIRED THEN Fail(ErrExpired, t)
    ELSE IF balance[tx[t].sender] < DebitAmount(t) THEN Fail(ErrBalance, t)
    ELSE Settle(t, DebitAmount(t), DebitAmount(t))

\* dynamic dispatch of t.transactionHandler.pay(t)
Pay(t) ==
    CASE tx[t].transactionHandler = Credit -> CreditPay(t)
      [] tx[t].transactionHandler = Cash -> CashPay(t)
      [] tx[t].transactionHandler = Debit -> DebitPay(t)

\* SelectCase with the cases of CASH and DEBIT exchanged
SelectCaseSwapped(m, h) ==
    CASE m = CREDIT -> [handler |-> Credit, err |-> NoErr]
      [] m = CASH -> [handler |-> Debit, err |-> NoErr]
      [] m = DEBIT -> [handler |-> Cash, err |-> NoErr]
      [] OTHER -> [handler |-> h, err |-> ErrNoHandler]

\* the switch of selectTransactionHandler: the handler bound and the error
SelectCase(m, h) ==
    CASE m = CREDIT -> [handler |-> Credit, err |-> NoErr]
      [] m = CASH -> [handler |-> Cash, err |-> NoErr]
      [] m = DEBIT -> [handler |-> Debit, err |-> NoErr]
      [] OTHER -> [handler |-> h, err |-> ErrNoHandler]

----------------------------------------------------------------------------
(* State machine *)

\* initial balances
InitBalances == {0, 11, MaxUint32}

\* requested amounts
Amounts == {0, 1, 10, MaxUint32}

\* sender and recipient of a Transaction literal
Pairs == {<<1, 2>>, <<2, 1>>, <<1, 1>>, <<1, 3>>}

\* the Transaction literals of the first transaction: every field free (the
\* handler unset, or injected by the literal)
Literals1 ==
    { [amount |-> a, sender |-> p[1], recipient |-> p[2], state |-> st,
       paymentMethod |-> m, transactionHandler |-> h] :
        a \in Amounts, p \in Pairs, st \in TransactionState,
        m \in PaymentMethod, h \in {Nil, Debit} }

\* the Transaction literals of the second transaction: as main builds it
Literals2 ==
    { [amount |-> 10, sender |-> 1, recipient |-> 2, state |-> OPEN,
       paymentMethod |-> m, transactionHandler |-> Nil] :
        m \in {CREDIT, CASH, DEBIT} }

\* the Account balances and the Transaction literal of main
MainBalances == <<150, 5, 0>>

MainTransaction ==
    [amount |-> 55, sender |-> 1, recipient |-> 2, state |-> OPEN,
     paymentMethod |-> CASH, transactionHandler |-> Nil]

\* the callers of makePayment when calls run in parallel: caller p pays
\* transaction p
Procs == {1, 2}

\* no call is in progress
Idle ==
    [pc |-> [p \in Procs |-> "idle"], reg |-> [p \in Procs |-> 0],
     err |-> [p \in Procs |-> NoErr], interleaved |-> FALSE,
     overdrawn |-> FALSE]

Snapshot == [balance |-> balance, tx |-> tx, selected |-> selected, paid |-> paid]

Init ==
    /\ arch \in {"wrap", "saturate"}
    /\ \/ /\ balance \in {b \in [Acct -> InitBalances] : b[3] = 0}
          /\ tx \in {f \in [Tx -> Literals1 \cup Literals2] :
                        f[1] \in Literals1 /\ f[2] \in Literals2}
       \/ /\ balance = MainBalances
          /\ tx \in {f \in [Tx -> {MainTransaction} \cup Literals2] :
                        f[1] = MainTransaction /\ f[2] \in Literals2}
    /\ selected = {}
    /\ paid = {}
    /\ last = [op |-> "init", t |-> 0, err |-> NoErr]
    /\ prev = [balance |-> balance, tx |-> tx, selected |-> {}, paid |-> {}]
    /\ conc = Idle

\* a panic ends the program
Running == last.err # Panic

\* selectTransactionHandler that also reopens the transaction
selectTransactionHandlerReopens(t) ==
    LET r == SelectCase(tx[t].paymentMethod, tx[t].transactionHandler)
    IN  /\ Running
        /\ tx' = [tx EXCEPT ![t].transactionHandler = r.handler,
                            ![t].state = OPEN]
        /\ selected' = IF r.err = NoErr THEN selected \cup {t} ELSE selected
        /\ last' = [op |-> "selectTransactionHandler", t |-> t, err |-> r.err]
        /\ prev' = Snapshot
        /\ UNCHANGED <<arch, balance, paid, conc>>

selectTransactionHandler(t) ==
    LET r == SelectCase(tx[t].paymentMethod, tx[t].transactionHandler)
    IN  /\ Running
        /\ tx' = [tx EXCEPT ![t].transactionHandler = r.handler]
        /\ selected' = IF r.err = NoErr THEN selected \cup {t} ELSE selected
        /\ last' = [op |-> "selectTransactionHandler", t |-> t, err |-> r.err]
        /\ prev' = Snapshot
        /\ UNCHANGED <<arch, balance, paid, conc>>

\* makePayment that records the settled value as the transaction's amount
makePaymentRecordsSettled(t) ==
    /\ Running
    /\ IF tx[t].transactionHandler = Nil
       THEN /\ last' = [op |-> "makePayment", t |-> t, err |-> Panic]
            /\ UNCHANGED <<balance, tx, paid>>
       ELSE LET r == Pay(t)
                moved == SubUint32(balance[tx[t].sender],
                                   r.balance[tx[t].sender])
            IN  /\ balance' = r.balance
                /\ tx' = [tx EXCEPT ![t].state = r.state,
                                    ![t].amount =
                                        IF r.err = NoErr THEN moved ELSE @]
                /\ paid' = IF r.err = NoErr THEN paid \cup {t} ELSE paid
                /\ last' = [op |-> "makePayment", t |-> t, err |-> r.err]
    /\ prev' = Snapshot
    /\ UNCHANGED <<arch, selected, conc>>

makePayment(t) ==
    /\ Running
    /\ IF tx[t].transactionHandler = Nil
       THEN /\ last' = [op |-> "makePayment", t |-> t, err |-> Panic]
            /\ UNCHANGED <<balance, tx, paid>>
       ELSE LET r == Pay(t)
            IN  /\ balance' = r.balance
                /\ tx' = [tx EXCEPT ![t].state = r.state]
                /\ paid' = IF r.err = NoErr THEN paid \cup {t} ELSE paid
                /\ last' = [op |-> "makePayment", t |-> t, err |-> r.err]
    /\ prev' = Snapshot
    /\ UNCHANGED <<arch, selected, conc>>

Next ==
    \/ \E t \in Tx : selectTransactionHandler(t)
    \/ \E t \in Tx : makePayment(t)

Spec == Init /\ [][Next]_vars

----------------------------------------------------------------------------
(* Two makePayment calls in parallel, statement by statement *)

\* the value the bound strategy compares, subtracts and adds
AmountOf(t) ==
    CASE tx[t].transactionHandler = Credit -> CreditAmount(t)
      [] tx[t].transactionHandler = Cash -> CashAmount(t)
      [] tx[t].transactionHandler = Debit -> DebitAmount(t)

\* balances of the sender when the calls start
ConcBalances == {0, 11, 15, MaxUint32}

\* two OPEN transactions from Account 1 to Account 2, their handlers bound
\* by selectTransactionHandler
ConcLiterals ==
    { [amount |-> a, sender |-> 1, recipient |-> 2, state |-> OPEN,
       paymentMethod |-> m, transactionHandler |-> SelectCase(m, Nil).handler] :
        a \in {1, 10}, m \in {CREDIT, CASH, DEBIT} }

ConcInit ==
    /\ arch \in {"wrap", "saturate"}
    /\ balance \in {b \in [Acct -> ConcBalances \cup {0}] :
                       b[2] \in {0, MaxUint32} /\ b[3] = 0}
    /\ tx \in [Tx -> ConcLiterals]
    /\ selected = Tx
    /\ paid = {}
    /\ last = [op |-> "init", t |-> 0, err |-> NoErr]
    /\ prev = [balance |-> balance, tx |-> tx, selected |-> Tx, paid |-> {}]
    /\ conc = [Idle EXCEPT !.pc = [p \in Procs |-> "validate"]]

\* caller p moves to pc2 with register r and error e; the step is
\* interleaved when the other call has begun and not yet returned, and
\* overdraws when o holds
Advance(p, pc2, r, e, o) ==
    conc' = [conc EXCEPT
                !.pc[p] = pc2, !.reg[p] = r, !.err[p] = e,
                !.interleaved =
                    @ \/ \E q \in Procs \ {p} :
                            conc.pc[q] \notin {"validate", "done"},
                !.overdrawn = @ \/ o]

\* the three validations that read only the transaction and the ids
PayValidate(p) ==
    /\ conc.pc[p] = "validate"
    /\ IF id[tx[p].sender] = id[tx[p].recipient]
       THEN Advance(p, "done", 0, ErrSelf, FALSE)
       ELSE IF tx[p].state = CLOSED
       THEN Advance(p, "done", 0, ErrClosed, FALSE)
       ELSE IF tx[p].state = EXPIRED
       THEN Advance(p, "done", 0, ErrExpired, FALSE)
       ELSE Advance(p, "check", 0, NoErr, FALSE)
    /\ UNCHANGED <<arch, balance, tx, last, prev, selected, paid>>

\* PayCheck without the comparison
PayCheckAlwaysPasses(p) ==
    /\ conc.pc[p] = "check"
    /\ Advance(p, "loadS", 0, NoErr, FALSE)
    /\ UNCHANGED <<arch, balance, tx, last, prev, selected, paid>>

\* the comparison of the sender's balance with the amount
PayCheck(p) ==
    /\ conc.pc[p] = "check"
    /\ IF balance[tx[p].sender] < AmountOf(p)
       THEN Advance(p, "done", 0, ErrBalance, FALSE)
       ELSE Advance(p, "loadS", 0, NoErr, FALSE)
    /\ UNCHANGED <<arch, balance, tx, last, prev, selected, paid>>

\* t.sender.balance -= amount: the read
PayLoadSender(p) ==
    /\ conc.pc[p] = "loadS"
    /\ Advance(p, "storeS", balance[tx[p].sender], NoErr, FALSE)
    /\ UNCHANGED <<arch, balance, tx, last, prev, selected, paid>>

\* t.sender.balance -= amount: the write
PayStoreSender(p) ==
    /\ conc.pc[p] = "storeS"
    /\ balance' = [balance EXCEPT
                      ![tx[p].sender] = SubUint32(conc.reg[p], AmountOf(p))]
    /\ Advance(p, "loadR", 0, NoErr, conc.reg[p] < AmountOf(p))
    /\ UNCHANGED <<arch, tx, last, prev, selected, paid>>

\* t.recipient.balance += amount: the read
PayLoadRecipient(p) ==
    /\ conc.pc[p] = "loadR"
    /\ Advance(p, "storeR", balance[tx[p].recipient], NoErr, FALSE)
    /\ UNCHANGED <<arch, balance, tx, last, prev, selected, paid>>

\* t.recipient.balance += amount: the write
PayStoreRecipient(p) ==
    /\ conc.pc[p] = "storeR"
    /\ balance' = [balance EXCEPT
                      ![tx[p].recipient] = AddUint32(conc.reg[p], AmountOf(p))]
    /\ Advance(p, "close", 0, NoErr, FALSE)
    /\ UNCHANGED <<arch, tx, last, prev, selected, paid>>

\* t.state = CLOSED; return nil
PayClose(p) ==
    /\ conc.pc[p] = "close"
    /\ tx' = [tx EXCEPT ![p].state = CLOSED]
    /\ paid' = paid \cup {p}
    /\ Advance(p, "done", 0, NoErr, FALSE)
    /\ UNCHANGED <<arch, balance, last, prev, selected>>

ConcNext ==
    \/ \E p \in Procs : PayValidate(p)
    \/ \E p \in Procs : PayCheck(p)
    \/ \E p \in Procs : PayLoadSender(p)
    \/ \E p \in Procs : PayStoreSender(p)
    \/ \E p \in Procs : PayLoadRecipient(p)
    \/ \E p \in Procs : PayStoreRecipient(p)
    \/ \E p \in Procs : PayClose(p)

ConcSpec == ConcInit /\ [][ConcNext]_vars

----------------------------------------------------------------------------
(* Vocabulary of the properties *)

LastPay == last.op = "makePayment"

LastSelect == last.op = "selectTransactionHandler"

\* the transaction of the last call as it was before the call, and as it is
Before == prev.tx[last.t]

After == tx[last.t]

Succeeded == last.err = NoErr

\* the call changed no balance and no transaction
NothingChanged == balance = prev.balance /\ tx = prev.tx

\* the effective settlement amount of the specification, in exact integers
Effective(m, a) ==
    CASE m = CREDIT -> (a * 11) \div 10
      [] m = CASH -> (a * 9) \div 10
      [] m = DEBIT -> a

\* the strategy that corresponds to a payment method, and conversely
HandlerOf(m) ==
    CASE m = CREDIT -> Credit
      [] m = CASH -> Cash
      [] m = DEBIT -> Debit

MethodOf(h) ==
    CASE h = Credit -> CREDIT
      [] h = Cash -> CASH
      [] h = Debit -> DEBIT

\* the error the specification names for a payment without a bound strategy
ErrNotBound == "no strategy bound"

SumOf(b) == b[1] + b[2] + b[3]

----------------------------------------------------------------------------
(* Properties *)

\* C1: makePayment on an OPEN transaction whose handler was bound by
\* selectTransactionHandler, with sender.id != recipient.id and
\* sender.balance >= effective(amount, method), returns no error, takes
\* effective from the sender, adds effective to the recipient and closes the
\* transaction.
C1_SettlementPostcondition ==
    (/\ LastPay
     /\ last.t \in prev.selected
     /\ Before.state = OPEN
     /\ id[Before.sender] # id[Before.recipient]
     /\ prev.balance[Before.sender]
            >= Effective(Before.paymentMethod, Before.amount))
    => LET e == Effective(Before.paymentMethod, Before.amount)
       IN  /\ Succeeded
           /\ balance[Before.sender] = prev.balance[Before.sender] - e
           /\ balance[Before.recipient] = prev.balance[Before.recipient] + e
           /\ After.state = CLOSED

\* C2: conservation: no call changes the sum of all account balances, and
\* a successful settlement takes from the sender exactly what it gives to the
\* recipient.
C2_Conservation ==
    /\ SumOf(balance) = SumOf(prev.balance)
    /\ (LastPay /\ Succeeded) =>
          prev.balance[Before.sender] - balance[Before.sender]
              = balance[Before.recipient] - prev.balance[Before.recipient]

\* C3: no call drives a balance negative: every balance stays in the range
\* of the unsigned integer, a successful makePayment never leaves the sender
\* with more than it had (its subtraction did not wrap below zero), and a
\* failed one leaves the balances alone.
C3_NoNegativeBalance ==
    /\ balance \in [Acct -> Uint32]
    /\ (LastPay /\ Succeeded) =>
          balance[Before.sender] <= prev.balance[Before.sender]
    /\ (LastPay /\ ~Succeeded) => balance = prev.balance

\* a second transaction settles on a sender that an earlier settlement drew on
C3_Witness ==
    /\ LastPay
    /\ Succeeded
    /\ \E u \in prev.paid :
          /\ u # last.t
          /\ tx[u].sender = Before.sender
          /\ tx[u].amount > 0
    /\ balance[Before.sender] < prev.balance[Before.sender]

\* C4: makePayment on a transaction that an earlier makePayment settled
\* fails with the already-closed error and changes no balance and no
\* transaction, whatever the handler and the sender's balance.
C4_ClosedStaysClosed ==
    (LastPay /\ last.t \in prev.paid) =>
        /\ last.err = ErrClosed
        /\ NothingChanged

\* a settled transaction is paid again while its sender could afford it
C4_Witness ==
    /\ LastPay
    /\ last.t \in prev.paid
    /\ Before.amount > 0
    /\ prev.balance[Before.sender] >= 2 * Before.amount

\* C5: makePayment through a bound strategy on a transaction whose
\* sender.id equals recipient.id fails with the self-transaction error and
\* changes no balance and no transaction, whatever the amount, the strategy
\* and the transaction state.
C5_SelfTransactionRejected ==
    (/\ LastPay
     /\ Before.transactionHandler # Nil
     /\ id[Before.sender] = id[Before.recipient])
    => /\ last.err = ErrSelf
       /\ NothingChanged

\* a CLOSED transaction between two Account values of one id is paid
C5_Witness ==
    /\ LastPay
    /\ Before.transactionHandler # Nil
    /\ Before.sender # Before.recipient
    /\ id[Before.sender] = id[Before.recipient]
    /\ Before.state = CLOSED
    /\ last.err = ErrSelf

\* C6: makePayment on an OPEN transaction bound by selectTransactionHandler,
\* with distinct sender and recipient and sender.balance less than
\* effective(amount, method), fails with the insufficient-balance error,
\* changes no balance and leaves the transaction OPEN.
C6_InsufficientBalance ==
    (/\ LastPay
     /\ last.t \in prev.selected
     /\ Before.state = OPEN
     /\ id[Before.sender] # id[Before.recipient]
     /\ prev.balance[Before.sender]
            < Effective(Before.paymentMethod, Before.amount))
    => /\ last.err = ErrBalance
       /\ NothingChanged
       /\ After.state = OPEN

\* C7: makePayment on a transaction without a bound strategy returns the
\* "no strategy bound" error to its caller and changes nothing.
C7_NoStrategyBound ==
    (LastPay /\ Before.transactionHandler = Nil) =>
        /\ last.err = ErrNotBound
        /\ NothingChanged

\* C8: selectTransactionHandler on a transaction whose payment method is
\* none of CREDIT, DEBIT, CASH fails with the handler-not-found error and
\* leaves the transaction without a bound strategy.
C8_UnknownMethodUnsets ==
    (LastSelect /\ Before.paymentMethod \notin {CREDIT, DEBIT, CASH}) =>
        /\ last.err = ErrNoHandler
        /\ After.transactionHandler = Nil

\* C9: the value a successful settlement takes from the sender is
\* floor(amount * 11 / 10) for Credit, floor(amount * 9 / 10) for Cash and
\* amount for Debit, and the recipient's balance is increased by that value.
C9_EffectiveAmount ==
    (LastPay /\ Succeeded) =>
        LET moved == prev.balance[Before.sender] - balance[Before.sender]
        IN  /\ moved = Effective(MethodOf(Before.transactionHandler),
                                 Before.amount)
            /\ balance[Before.recipient]
                   = AddUint32(prev.balance[Before.recipient], moved)

\* C10: a successful selectTransactionHandler binds the strategy of the
\* transaction's payment method; called again on a transaction it has
\* already bound, it leaves the transaction, and so the outcome of the
\* following makePayment, exactly as it was.
C10_SelectBindsMethod ==
    (LastSelect /\ Before.paymentMethod \in {CREDIT, DEBIT, CASH}) =>
        /\ Succeeded
        /\ After.transactionHandler = HandlerOf(Before.paymentMethod)
        /\ last.t \in prev.selected => NothingChanged

\* selectTransactionHandler is called on a transaction it has bound before
C10_Witness ==
    /\ LastSelect
    /\ Succeeded
    /\ last.t \in prev.selected
    /\ After.transactionHandler = Cash

\* C11: selectTransactionHandler, whether it succeeds or fails, changes no
\* balance, no other transaction, and of its own transaction nothing but the
\* bound handler.
C11_SelectFrame ==
    LastSelect =>
        /\ balance = prev.balance
        /\ \A u \in Tx \ {last.t} : tx[u] = prev.tx[u]
        /\ After = [Before EXCEPT
                       !.transactionHandler = After.transactionHandler]

\* a handler is bound on a transaction that is not OPEN, after a settlement
\* has moved balances
C11_Witness ==
    /\ LastSelect
    /\ Succeeded
    /\ Before.transactionHandler # After.transactionHandler
    /\ Before.state # OPEN
    /\ prev.paid # {}

\* main's transaction once selectTransactionHandler has bound its handler
MainBound == [MainTransaction EXCEPT !.transactionHandler = Cash]

\* C12: from main's accounts (balances 150 and 5) and main's OPEN CASH
\* transaction of amount 55, selectTransactionHandler returns no error and
\* binds the handler, and the makePayment that follows returns no error and
\* leaves the balances 101 and 54 and the transaction CLOSED.
C12_Demonstration ==
    /\ (LastSelect /\ last.t = 1 /\ Before = MainTransaction) =>
          (Succeeded /\ After = MainBound)
    /\ (LastPay /\ last.t = 1 /\ Before = MainBound
            /\ prev.balance = MainBalances) =>
          /\ Succeeded
          /\ balance = <<101, 54, 0>>
          /\ After = [MainBound EXCEPT !.state = CLOSED]

\* main's two calls have run on main's accounts and transaction
C12_Witness ==
    /\ LastPay
    /\ last.t = 1
    /\ Before = MainBound
    /\ 1 \in prev.selected
    /\ prev.balance = MainBalances
    /\ balance[1] = 101

\* C13: every strategy returns the first failure of the four validations in
\* their order: equal ids give the self-transaction error in every state;
\* otherwise CLOSED gives the closed error; otherwise EXPIRED gives the
\* expired error, whatever the sender's balance; the insufficient-balance
\* error is returned only for an OPEN transaction with distinct ids.
C13_ValidationOrder ==
    (LastPay /\ Before.transactionHandler # Nil) =>
        LET same == id[Before.sender] = id[Before.recipient]
        IN  /\ same => last.err = ErrSelf
            /\ (~same /\ Before.state = CLOSED) => last.err = ErrClosed
            /\ (~same /\ Before.state = EXPIRED) => last.err = ErrExpired
            /\ last.err = ErrBalance => (~same /\ Before.state = OPEN)
            /\ last.err \in {NoErr, ErrSelf, ErrClosed, ErrExpired, ErrBalance}

\* an EXPIRED transaction whose sender holds less than the amount is paid
C13_Witness ==
    /\ LastPay
    /\ Before.transactionHandler # Nil
    /\ id[Before.sender] # id[Before.recipient]
    /\ Before.state = EXPIRED
    /\ prev.balance[Before.sender] = 0
    /\ Before.amount > 1
    /\ last.err = ErrExpired

\* the balances are those before the call with one value taken from the
\* sender and added to the recipient
Transferred ==
    \E e \in Uint32 :
        balance = [prev.balance EXCEPT
                      ![Before.sender] = @ - e,
                      ![Before.recipient] = AddUint32(@, e)]

\* C14: a CLOSED transaction stays CLOSED through every call, rebinding
\* included; balances and states change only in a successful makePayment,
\* which finds its transaction OPEN and never settled before, transfers one
\* value (possibly 0) from sender to recipient and leaves the transaction
\* CLOSED; a failed makePayment changes nothing.
C14_ClosedTerminalAllOrNothing ==
    /\ \A u \in Tx : prev.tx[u].state = CLOSED => tx[u].state = CLOSED
    /\ (balance # prev.balance \/ \E u \in Tx : tx[u].state # prev.tx[u].state)
          => (LastPay /\ Succeeded)
    /\ (LastPay /\ Succeeded) =>
          /\ last.t \notin prev.paid
          /\ Before.state = OPEN
          /\ After.state = CLOSED
          /\ Transferred
          /\ \A u \in Tx \ {last.t} : tx[u] = prev.tx[u]
    /\ (LastPay /\ ~Succeeded) => NothingChanged

\* the handler of a settled transaction is bound again
C14_Witness ==
    /\ LastSelect
    /\ Succeeded
    /\ last.t \in prev.paid
    /\ After.state = CLOSED
    /\ prev.balance[Before.sender] >= Before.amount

\* C15: no call moves a transaction into or out of EXPIRED, the only change
\* of state is OPEN to CLOSED, and makePayment through a bound strategy on
\* an EXPIRED transaction with distinct ids fails with the expired error and
\* changes nothing.
C15_ExpiredNeverEnteredNorLeft ==
    /\ \A u \in Tx :
          /\ (prev.tx[u].state = EXPIRED) = (tx[u].state = EXPIRED)
          /\ tx[u].state # prev.tx[u].state =>
                 (prev.tx[u].state = OPEN /\ tx[u].state = CLOSED)
    /\ (/\ LastPay
        /\ Before.transactionHandler # Nil
        /\ Before.state = EXPIRED
        /\ id[Before.sender] # id[Before.recipient])
       => (last.err = ErrExpired /\ NothingChanged)

\* an EXPIRED transaction that its sender could afford is paid
C15_Witness ==
    /\ LastPay
    /\ Before.transactionHandler = Cash
    /\ Before.state = EXPIRED
    /\ id[Before.sender] # id[Before.recipient]
    /\ Before.amount > 1
    /\ prev.balance[Before.sender] >= Before.amount
    /\ After.state = EXPIRED

\* C16: no call changes the amount recorded in a transaction, also when the
\* value moved differs from it.
C16_AmountUnchanged ==
    \A u \in Tx : tx[u].amount = prev.tx[u].amount

\* a Credit settlement has moved more than the recorded amount
C16_Witness ==
    /\ LastPay
    /\ Succeeded
    /\ Before.transactionHandler = Credit
    /\ prev.balance[Before.sender] - balance[Before.sender] > Before.amount
    /\ After.amount = Before.amount

\* C18: a successful settlement never decreases the recipient's balance:
\* the recipient ends with its balance before plus the value taken from the
\* sender.
C18_RecipientNeverDecreases ==
    (LastPay /\ Succeeded) =>
        /\ balance[Before.recipient] >= prev.balance[Before.recipient]
        /\ balance[Before.recipient] =
               prev.balance[Before.recipient]
                   + (prev.balance[Before.sender] - balance[Before.sender])

\* C19: makePayment through a bound strategy on an OPEN transaction with
\* distinct ids whose effective amount is 0 (amount 0, or Cash with amount
\* 1) returns no error for every sender balance, changes no balance and
\* leaves the transaction CLOSED.
C19_ZeroSettlement ==
    (/\ LastPay
     /\ Before.transactionHandler # Nil
     /\ Before.state = OPEN
     /\ id[Before.sender] # id[Before.recipient]
     /\ \/ Before.amount = 0
        \/ Before.transactionHandler = Cash /\ Before.amount = 1)
    => /\ Succeeded
       /\ balance = prev.balance
       /\ After.state = CLOSED

\* a Cash transaction of amount 1 is settled for a sender that holds nothing
C19_Witness ==
    /\ LastPay
    /\ Succeeded
    /\ Before.transactionHandler = Cash
    /\ Before.amount = 1
    /\ prev.balance[Before.sender] = 0
    /\ After.state = CLOSED

\* C17: when two makePayment calls on two OPEN transactions of one sender
\* run in parallel, the subtraction can take from the sender more than it
\* holds; it never does when one call runs wholly before the other.
C17_OverdrawOnlyWhenInterleaved ==
    conc.overdrawn => conc.interleaved

\* both calls passed the check against the same balance, both returned no
\* error, and the sender's balance wrapped above what it started with
C17_Witness ==
    /\ \A p \in Procs : conc.pc[p] = "done" /\ conc.err[p] = NoErr
    /\ conc.overdrawn
    /\ prev.balance[1] >= AmountOf(1)
    /\ prev.balance[1] >= AmountOf(2)
    /\ prev.balance[1] < AmountOf(1) + AmountOf(2)
    /\ balance[1] > prev.balance[1]

====
